---- MODULE Spec2Model ----
(***************************************************************************)
(* Model of Caleprocure_events_scraper.py: the row/page traversal of       *)
(* process_all, the tab handling of robust_open_new_tab, the readiness     *)
(* check of ensure_event_loaded_or_skip, the entry point main, and the     *)
(* text helpers used to name an event record.                              *)
(*                                                                         *)
(* The browser is the environment.  A browsing context is a record         *)
(* [kind, n]: kind is what its URL shows ("blank", "list" for              *)
(* event-search.aspx, "loading" for loading.html, "detail" for an /event/  *)
(* page); n is the list page shown (kind "list") or the list row whose     *)
(* event the context was opened for (kinds "loading" and "detail").        *)
(***************************************************************************)
EXTENDS Integers, Sequences, FiniteSets, TLC

\* ------------------------------------------------------------------ bounds
MaxTotalRows == 3
MaxLimit == 1
MaxPageCap == 1
MaxFaults == 2
MaxAttRows == 2
MaxPieces == 2
MaxElems == 3
MaxCands == 2

\* end_index = None (line 933) is modelled as -1: no row index is negative.
NoEnd == -1

VARIABLES
  pageRows,     \* the site: pageRows[p] = number of rows of list page p
  start_index,  \* process_all parameter
  end_index,    \* process_all parameter, NoEnd for None
  limit,        \* process_all parameter
  max_pages,    \* process_all parameter
  pc,           \* position in main / process_all
  page_idx,     \* process_all local
  i,            \* process_all local: working row index on the page
  global_row,   \* process_all local: 1-based row counter across pages
  rows,         \* process_all local: len(rows) of the last row query
  row,          \* the list row picked by rows[i] (its position in the whole list)
  all_events,   \* process_all local: the records collected
  handles,      \* driver.window_handles: the open browsing contexts
  focus,        \* index in handles of the driver's current window
  results,      \* main local
  out_json,     \* the array written to --out-json
  written,      \* whether the output file was written
  attempted,    \* history: rows for which robust_open_new_tab was called
  last,         \* history: how the latest row step ended
  nfaults,      \* history: number of deviations of the browser so far (a call
                \* that raises, a page that behaves unusually)
  nm,           \* inputs and output of the event-name computation
  lab,          \* extract_label_values / find_value_by_label: the page and the result
  att,          \* get_attachments: the page, the position and the links collected
  txt,          \* clean_text: the input and the result
  clk,          \* robust_open_new_tab: what the page does on the click
  nxt           \* click_next_if_available: the Next controls of the page

cfgVars == <<pageRows, start_index, end_index, limit, max_pages>>
locVars == <<page_idx, i, global_row, rows, row, all_events>>
drvVars == <<handles, focus>>
mainVars == <<results, out_json, written>>
auxVars == <<lab, att, txt, clk, nxt>>
vars == <<pageRows, start_index, end_index, limit, max_pages, pc, page_idx, i,
          global_row, rows, row, all_events, handles, focus, results, out_json,
          written, attempted, last, nfaults, nm, lab, att, txt, clk, nxt>>

\* ------------------------------------------------------------ text helpers
\* Optional[str]: None is <<>>, a string s is <<s>>.
None == <<>>
Some(s) == <<s>>

BANNER_SNIPPET ==
  "All businesses are encouraged to provide voluntary diversity data information in their CaleProcure profiles."

\* The characters matched by \s that the model's texts use.
IsSpace(c) == c \in {" ", "\n", "\t", "\r"}

Char(s, k) == SubSeq(s, k, k)
Drop(s, k) == SubSeq(s, k + 1, Len(s))

\* the places where b occurs in v
Occurrences(v, b) == {k \in 1..(Len(v) - Len(b) + 1) : SubSeq(v, k, k + Len(b) - 1) = b}

\* the smallest member of a non-empty set of numbers
Least(S) == CHOOSE k \in S : \A j \in S : k <= j

\* "b in v"
Contains(v, b) == Occurrences(v, b) /= {}

\* v.startswith(b)
StartsWith(v, b) == Len(v) >= Len(b) /\ SubSeq(v, 1, Len(b)) = b

\* v.replace(b, ""): the non-overlapping occurrences of b, left to right.
RECURSIVE Replace(_, _)
Replace(v, b) ==
  IF ~Contains(v, b) THEN v
  ELSE LET k == Least(Occurrences(v, b))
       IN  SubSeq(v, 1, k - 1) \o Replace(Drop(v, k + Len(b) - 1), b)

Spaces(v) == {k \in 1..Len(v) : IsSpace(Char(v, k))}
NonSpaces(v) == {k \in 1..Len(v) : ~IsSpace(Char(v, k))}

\* v.lstrip()
LStrip(v) == IF NonSpaces(v) = {} THEN "" ELSE Drop(v, Least(NonSpaces(v)) - 1)

\* v.strip()
Strip(v) ==
  IF NonSpaces(v) = {} THEN ""
  ELSE SubSeq(v, Least(NonSpaces(v)), CHOOSE k \in NonSpaces(v) : \A j \in NonSpaces(v) : j <= k)

\* re.sub(r"\s+", " ", v): every run of whitespace becomes one space.
RECURSIVE CollapseSpace(_)
CollapseSpace(v) ==
  IF Spaces(v) = {} THEN v
  ELSE LET k == Least(Spaces(v))
       IN  SubSeq(v, 1, k - 1) \o " " \o CollapseSpace(LStrip(Drop(v, k - 1)))

clean_text(value) ==
  IF value = None \/ value = Some("") THEN None
  ELSE LET v0 == value[1]
           v1 == IF Contains(v0, BANNER_SNIPPET) THEN Replace(v0, BANNER_SNIPPET) ELSE v0
           v2 == Strip(CollapseSpace(v1))
       IN  IF v2 = "" THEN None ELSE Some(v2)

UpperCase == "ABCDEFGHIJKLMNOPQRSTUVWXYZ"
LowerCase == "abcdefghijklmnopqrstuvwxyz"

LowerChar(c) ==
  IF \E k \in 1..Len(UpperCase) : Char(UpperCase, k) = c
  THEN Char(LowerCase, CHOOSE k \in 1..Len(UpperCase) : Char(UpperCase, k) = c)
  ELSE c

\* t.lower()
RECURSIVE lower(_)
lower(t) ==
  IF Len(t) = 0 THEN t
  ELSE IF Len(t) = 1 THEN LowerChar(t)
  ELSE lower(SubSeq(t, 1, Len(t) \div 2)) \o lower(Drop(t, Len(t) \div 2))

\* raw_text(el): el.text or "", and "" when reading the text raises.
\* An element is its text, or NoText when el.text is None or raises.
NoText == <<>>
raw_text(el) == IF el = NoText THEN "" ELSE el[1]

\* ------------------------------------------------------------- event name
\* The result of a find_element: Absent when it raises NoSuchElementException,
\* else Found(el), el the element's text as raw_text reads it.
Absent == <<>>
Found(el) == <<el>>

\* One of the three title lookups of get_event_name_from_details_page: the
\* cleaned text of the element found, unless it is empty or a section heading.
TitleFrom(l) ==
  IF l = Absent THEN None
  ELSE LET t == clean_text(Some(raw_text(l[1])))
       IN  IF t /= None /\ lower(t[1]) \notin {"event details", "details"} THEN t ELSE None

\* l1, l2, l3: the data-label element, the bold h3, the element before the
\* Details heading.
get_event_name_from_details_page(l1, l2, l3) ==
  IF TitleFrom(l1) /= None THEN TitleFrom(l1)
  ELSE IF TitleFrom(l2) /= None THEN TitleFrom(l2)
  ELSE TitleFrom(l3)

\* cell: the lookup of the row's second cell, its text being innerText or text.
get_event_name_from_row(cell) ==
  IF cell = Absent THEN ""
  ELSE LET t == clean_text(Some(raw_text(cell[1]))) IN IF t = None THEN "" ELSE t[1]

\* mutant: the placeholder fallback left out
EventNameNoSentinel(title, list_row_event_name) ==
  IF title /= None THEN title[1]
  ELSE LET t == clean_text(Some(list_row_event_name)) IN IF t = None THEN "" ELSE t[1]

\* The "Event Name" of extract_event_details, title being the result of
\* get_event_name_from_details_page.
EventName(title, list_row_event_name) ==
  LET t == clean_text(Some(list_row_event_name))
      event_name == IF title /= None THEN title[1] ELSE IF t = None THEN "" ELSE t[1]
  IN  IF event_name = "" THEN "Unknown Event Name" ELSE event_name

\* Sample texts of the title elements and of the row's name cell.
TitleTexts ==
  {"", "Details", "EVENT DETAILS", " Event \n Details ", "  Road \n Repair ",
   BANNER_SNIPPET \o " Bridge  Works"}

CellTexts ==
  {"", " \n ", "Paving  2026", "Details", BANNER_SNIPPET,
   "All" \o BANNER_SNIPPET \o Drop(BANNER_SNIPPET, 3)}

Lookups(texts) == {Absent, Found(NoText)} \cup {Found(Some(t)) : t \in texts}

\* ---------------------------------------------------- the site and the driver
Ctx(k, n) == [kind |-> k, n |-> n]
Blank == Ctx("blank", 0)
ListCtx(p) == Ctx("list", p)
Pending(r) == Ctx("loading", r)
Detail(r) == Ctx("detail", r)

RECURSIVE SumTo(_, _)
SumTo(s, k) == IF k = 0 THEN 0 ELSE s[k] + SumTo(s, k - 1)

\* The lists explored: every split of 1..MaxTotalRows rows over non-empty pages.
Layouts ==
  {s \in UNION {[1..n -> 1..MaxTotalRows] : n \in 1..MaxTotalRows} :
     SumTo(s, Len(s)) <= MaxTotalRows}

totalRows == SumTo(pageRows, Len(pageRows))

\* The k-th row of list page p, as its position in the whole list.
RowAt(p, k) == SumTo(pageRows, p - 1) + k

cur == handles[focus]

\* "event-search.aspx" in driver.current_url
OnList(c) == c.kind = "list"

\* "loading.html" in driver.current_url
OnLoading(c) == c.kind = "loading"

\* len(get_event_rows(driver)) with c the current window: the events table
\* exists on the list page only.
get_event_rows(c) == IF OnList(c) THEN pageRows[c.n] ELSE 0

\* driver.get(START_URL): the current window shows the first list page.
GetStartUrl(h, f) == [h EXCEPT ![f] = ListCtx(1)]

RemoveAt(h, k) == SubSeq(h, 1, k - 1) \o SubSeq(h, k + 1, Len(h))

CanFail == nfaults < MaxFaults
Fail == nfaults' = nfaults + 1
Quiet == UNCHANGED nfaults

\* ------------------------------------------------------------------- main
\* --upto "a-b", reordered when reversed.
ParseUpto(a, b) == IF b < a THEN <<b, a>> ELSE <<a, b>>

\* the row indexes a range can name: up to one past the longest list
MaxIndex == MaxTotalRows + 1

Uptos == {None} \cup {<<a, b>> : a \in 0..MaxIndex, b \in 0..MaxIndex}

\* The runs explored: every layout, --upto, --limit and --max-pages within the
\* bounds.
BoundedRun ==
  /\ pageRows \in Layouts
  /\ \E u \in Uptos :
       /\ start_index = IF u = None THEN 1 ELSE ParseUpto(u[1], u[2])[1]
       /\ end_index = IF u = None THEN NoEnd ELSE ParseUpto(u[1], u[2])[2]
  /\ limit \in 0..MaxLimit
  /\ max_pages \in 0..MaxPageCap
  /\ Cardinality({k \in 1..3 : <<end_index /= NoEnd, limit /= 0, max_pages /= 0>>[k]}) <= 1

\* and the documented end-to-end run: two pages of three rows, --upto 2-4.
ScenarioRun ==
  /\ pageRows = <<3, 3>>
  /\ start_index = ParseUpto(2, 4)[1]
  /\ end_index = ParseUpto(2, 4)[2]
  /\ limit = 0
  /\ max_pages = 0

Init ==
  /\ BoundedRun \/ ScenarioRun
  /\ pc = "main"
  /\ page_idx = 0
  /\ i = 0
  /\ global_row = 0
  /\ rows = 0
  /\ row = 0
  /\ all_events = <<>>
  /\ handles = <<Blank>>
  /\ focus = 1
  /\ results = <<>>
  /\ out_json = <<>>
  /\ written = FALSE
  /\ attempted = <<>>
  /\ last = "none"
  /\ nfaults = 0
  /\ nm = <<>>
  /\ lab = <<>>
  /\ att = <<>>
  /\ txt = <<>>
  /\ clk = <<>>
  /\ nxt = <<>>

\* driver.get(START_URL), then the call of process_all.
MainOpen ==
  /\ pc = "main"
  /\ handles' = GetStartUrl(handles, focus)
  /\ pc' = "page_top"
  /\ UNCHANGED <<cfgVars, locVars, focus, mainVars, attempted, last, nfaults, nm, auxVars>>

MainOpenRaises ==
  /\ pc = "main"
  /\ CanFail /\ Fail
  /\ pc' = "finally"
  /\ UNCHANGED <<cfgVars, locVars, drvVars, mainVars, attempted, last, nm, auxVars>>

\* results = process_all(...)
Return ==
  /\ pc = "ret"
  /\ results' = all_events
  /\ pc' = "finally"
  /\ UNCHANGED <<cfgVars, locVars, drvVars, out_json, written, attempted, last, nfaults, nm, auxVars>>

\* except Exception as e: the assignment to results never happened.
Caught ==
  /\ pc = "raised"
  /\ pc' = "finally"
  /\ UNCHANGED <<cfgVars, locVars, drvVars, mainVars, attempted, last, nfaults, nm, auxVars>>

\* finally: json.dump(results, f); driver.quit()
Finally ==
  /\ pc = "finally"
  /\ out_json' = results
  /\ written' = TRUE
  /\ handles' = <<>>
  /\ focus' = 0
  /\ pc' = "done"
  /\ UNCHANGED <<cfgVars, locVars, results, attempted, last, nfaults, nm, auxVars>>

\* open() or json.dump raises: caught as save_err, nothing is written.
FinallySaveFails ==
  /\ pc = "finally"
  /\ CanFail /\ Fail
  /\ handles' = <<>>
  /\ focus' = 0
  /\ pc' = "done"
  /\ UNCHANGED <<cfgVars, locVars, mainVars, attempted, last, nm, auxVars>>

\* ------------------------------------------------------------ process_all
\* mutant: the counter initialised inside the page loop
GlobalRowResetPerPage(g) == 0

\* global_row is set to 0 before the page loop, not inside it: a new page
\* keeps the counter.
GlobalRowAtPageTop(g) == g

\* end_index is not None and global_row >= end_index
RangeEnded(e, g) == e /= NoEnd /\ g >= e

\* mutant: the limit compared with > instead of >=
LimitReachedLate(lim, n) == lim /= 0 /\ n > lim

\* limit and len(all_events) >= limit
LimitReached(lim, n) == lim /= 0 /\ n >= lim

\* mutant: no row counts as below the range
BelowRangeNever(g, s) == FALSE

\* mutant: the start of the range compared with <= instead of <
BelowRangeOffByOne(g, s) == g <= s

\* row_num < start_index
BelowRange(g, s) == g < s

\* mutant: the row loop left one query too late
RowsExhaustedLate(idx, n) == idx > n

\* if i >= len(rows): break
RowsExhausted(idx, n) == idx >= n

\* max_pages and page_idx >= max_pages
PageCapReached(cap, p) == cap /= 0 /\ p >= cap

\* Top of the page loop: count the page, re-anchor on the list page, locate
\* the events section and query the rows.
PageTop ==
  /\ pc = "page_top"
  /\ page_idx' = page_idx + 1
  /\ handles' = IF OnList(cur) THEN handles ELSE GetStartUrl(handles, focus)
  /\ rows' = get_event_rows(handles'[focus])
  /\ i' = 0
  /\ global_row' = GlobalRowAtPageTop(global_row)
  /\ pc' = "loop"
  /\ UNCHANGED <<cfgVars, row, all_events, focus, mainVars, attempted, last, nfaults, nm, auxVars>>

\* driver.get or goto_events_section raises outside the row-level try.
PageTopRaises ==
  /\ pc = "page_top"
  /\ CanFail /\ Fail
  /\ page_idx' = page_idx + 1
  /\ pc' = "raised"
  /\ UNCHANGED <<cfgVars, i, global_row, rows, row, all_events, drvVars, mainVars,
                 attempted, last, nm, auxVars>>

\* while i < len(rows): the range and limit checks before the row-level try.
LoopHead ==
  /\ pc = "loop"
  /\ pc' = IF i < rows
           THEN IF RangeEnded(end_index, global_row) THEN "ret"
                ELSE IF LimitReached(limit, Len(all_events)) THEN "ret"
                ELSE "try"
           ELSE "page_end"
  /\ UNCHANGED <<cfgVars, locVars, drvVars, mainVars, attempted, last, nfaults, nm, auxVars>>

\* rows = get_event_rows(driver) found n rows: break, or pick rows[i], count
\* it, and apply the range filter.
PickRow(n) ==
  /\ rows' = n
  /\ IF RowsExhausted(i, n)
     THEN /\ pc' = "page_end"
          /\ UNCHANGED <<i, global_row, row, last>>
     ELSE /\ row' = RowAt(cur.n, i + 1)
          /\ i' = i + 1
          /\ global_row' = global_row + 1
          /\ pc' = IF BelowRange(global_row', start_index) THEN "loop"
                   ELSE IF end_index /= NoEnd /\ global_row' > end_index THEN "ret"
                   ELSE "cells"
          /\ last' = IF BelowRange(global_row', start_index) THEN "below" ELSE last
  /\ UNCHANGED <<cfgVars, page_idx, all_events, drvVars, mainVars, attempted, nm, auxVars>>

RowQuery ==
  /\ pc = "try"
  /\ PickRow(get_event_rows(cur))
  /\ Quiet

\* The table re-rendered with fewer rows than the working index needs.
RowQueryShrunk ==
  /\ pc = "try"
  /\ CanFail /\ Fail
  /\ \E n \in 0..i : n < get_event_rows(cur) /\ PickRow(n)

RowQueryRaises ==
  /\ pc = "try"
  /\ CanFail /\ Fail
  /\ pc' = "except"
  /\ UNCHANGED <<cfgVars, locVars, drvVars, mainVars, attempted, last, nm, auxVars>>

\* tds = row.find_elements(...); get_event_name_from_row; row_click_target_and_url
Cells ==
  /\ pc = "cells"
  /\ pc' = "open"
  /\ UNCHANGED <<cfgVars, locVars, drvVars, mainVars, attempted, last, nfaults, nm, auxVars>>

\* len(tds) < 2: continue
CellsNarrow ==
  /\ pc = "cells"
  /\ CanFail /\ Fail
  /\ pc' = "loop"
  /\ last' = "narrow"
  /\ UNCHANGED <<cfgVars, locVars, drvVars, mainVars, attempted, nm, auxVars>>

\* the row handle is stale
CellsRaises ==
  /\ pc = "cells"
  /\ CanFail /\ Fail
  /\ pc' = "except"
  /\ UNCHANGED <<cfgVars, locVars, drvVars, mainVars, attempted, last, nm, auxVars>>

\* What the page does on the click of robust_open_new_tab: click is "tab" (a
\* new context opens at once), "same" (the current window navigates), "none"
\* (nothing opens) or "late" (a new context opens only after handles_after
\* was read: before or after the final switch, as `when` says); guess is
\* whether a target URL is known or derivable from the clicked element.
NormalClick == [click |-> "tab", guess |-> TRUE, when |-> "before"]

OddClicks ==
  {o \in [click : {"same", "none", "late"}, guess : BOOLEAN, when : {"before", "after"}] :
     o.click /= "late" => o.when = "before"}

\* mutant: the guessed URL opened whatever the number of contexts
robust_open_forces_always(h, f, r, o) ==
  LET clicked == CASE o.click = "tab" -> Append(h, Pending(r))
                   [] o.click = "same" -> [h EXCEPT ![f] = Pending(r)]
                   [] OTHER -> h
      forced == IF o.guess THEN Append(clicked, Pending(r)) ELSE clicked
      early == IF o.click = "late" /\ o.when = "before"
               THEN Append(forced, Pending(r))
               ELSE forced
      newest == Len(early)
      final == IF o.click = "late" /\ o.when = "after"
               THEN Append(early, Pending(r))
               ELSE early
  IN  <<final, newest>>

\* robust_open_new_tab on handles h with current window f, for list row r:
\* the handles and the current window it ends with.
robust_open_new_tab(h, f, r, o) ==
  LET clicked == CASE o.click = "tab" -> Append(h, Pending(r))
                   [] o.click = "same" -> [h EXCEPT ![f] = Pending(r)]
                   [] OTHER -> h
      forced == IF Len(clicked) = Len(h) /\ o.guess
                THEN Append(clicked, Pending(r))
                ELSE clicked
      early == IF o.click = "late" /\ o.when = "before"
               THEN Append(forced, Pending(r))
               ELSE forced
      newest == Len(early)
      final == IF o.click = "late" /\ o.when = "after"
               THEN Append(early, Pending(r))
               ELSE early
  IN  <<final, newest>>

OpenWith(o) ==
  /\ handles' = robust_open_new_tab(handles, focus, row, o)[1]
  /\ focus' = robust_open_new_tab(handles, focus, row, o)[2]
  /\ attempted' = Append(attempted, row)
  /\ pc' = "ready"
  /\ UNCHANGED <<cfgVars, locVars, mainVars, last, nm, auxVars>>

Open ==
  /\ pc = "open"
  /\ OpenWith(NormalClick)
  /\ Quiet

OpenOdd ==
  /\ pc = "open"
  /\ CanFail /\ Fail
  /\ \E o \in OddClicks : OpenWith(o)

\* clickable.click() raises something other than the two exceptions caught.
OpenRaises ==
  /\ pc = "open"
  /\ CanFail /\ Fail
  /\ attempted' = Append(attempted, row)
  /\ pc' = "except"
  /\ UNCHANGED <<cfgVars, locVars, drvVars, mainVars, last, nm, auxVars>>

\* mutant: the loading.html checks dropped
ensure_never_skips(c, resolves) == <<c, TRUE>>

\* ensure_event_loaded_or_skip with current window c; resolves tells whether
\* loading.html gives way to the event page within the waits.  The context it
\* leaves and the value it returns.
ensure_event_loaded_or_skip(c, resolves) ==
  IF OnLoading(c)
  THEN IF resolves THEN <<Detail(c.n), TRUE>> ELSE <<c, FALSE>>
  ELSE <<c, TRUE>>

ReadyWith(resolves) ==
  /\ handles' = [handles EXCEPT ![focus] = ensure_event_loaded_or_skip(cur, resolves)[1]]
  /\ pc' = IF ensure_event_loaded_or_skip(cur, resolves)[2] THEN "extract" ELSE "skip"
  /\ UNCHANGED <<cfgVars, locVars, focus, mainVars, attempted, last, nm, auxVars>>

Ready ==
  /\ pc = "ready"
  /\ ReadyWith(TRUE)
  /\ Quiet

\* still on loading.html after the full wait
ReadyStuck ==
  /\ pc = "ready"
  /\ OnLoading(cur)
  /\ CanFail /\ Fail
  /\ ReadyWith(FALSE)

ReadyRaises ==
  /\ pc = "ready"
  /\ CanFail /\ Fail
  /\ pc' = "except"
  /\ UNCHANGED <<cfgVars, locVars, drvVars, mainVars, attempted, last, nm, auxVars>>

\* if len(driver.window_handles) > 1: close the current window and switch to
\* the first; if not on the list page: driver.get(START_URL).
CloseDetail(h, f) ==
  LET h1 == IF Len(h) > 1 THEN RemoveAt(h, f) ELSE h
      f1 == IF Len(h) > 1 THEN 1 ELSE f
  IN  <<IF OnList(h1[f1]) THEN h1 ELSE GetStartUrl(h1, f1), f1>>

\* the branch taken when ensure_event_loaded_or_skip returned False
Skip ==
  /\ pc = "skip"
  /\ handles' = CloseDetail(handles, focus)[1]
  /\ focus' = CloseDetail(handles, focus)[2]
  /\ pc' = "loop"
  /\ last' = "skipped"
  /\ UNCHANGED <<cfgVars, locVars, mainVars, attempted, nfaults, nm, auxVars>>

SkipRaises ==
  /\ pc = "skip"
  /\ CanFail /\ Fail
  /\ pc' = "except"
  /\ UNCHANGED <<cfgVars, locVars, drvVars, mainVars, attempted, last, nm, auxVars>>

\* extract_event_details for list row r with current window c: None on
\* loading.html, else a record, which holds what page c shows.
extract_event_details(c, r) ==
  IF OnLoading(c) THEN None ELSE Some([row |-> r, src |-> c])

\* mutant: the record inserted at the front
AppendEventFront(events, data) == IF data /= None THEN <<data[1]>> \o events ELSE events

\* data = extract_event_details(...); if data: all_events.append(data)
AppendEvent(events, data) == IF data /= None THEN Append(events, data[1]) ELSE events

Extract ==
  /\ pc = "extract"
  /\ all_events' = AppendEvent(all_events, extract_event_details(cur, row))
  /\ pc' = "close"
  /\ UNCHANGED <<cfgVars, page_idx, i, global_row, rows, row, drvVars, mainVars,
                 attempted, last, nfaults, nm, auxVars>>

ExtractRaises ==
  /\ pc = "extract"
  /\ CanFail /\ Fail
  /\ pc' = "except"
  /\ UNCHANGED <<cfgVars, locVars, drvVars, mainVars, attempted, last, nm, auxVars>>

\* after the append: close the detail context, back to the list page
Close ==
  /\ pc = "close"
  /\ handles' = CloseDetail(handles, focus)[1]
  /\ focus' = CloseDetail(handles, focus)[2]
  /\ pc' = "loop"
  /\ last' = "processed"
  /\ UNCHANGED <<cfgVars, locVars, mainVars, attempted, nfaults, nm, auxVars>>

CloseRaises ==
  /\ pc = "close"
  /\ CanFail /\ Fail
  /\ pc' = "except"
  /\ UNCHANGED <<cfgVars, locVars, drvVars, mainVars, attempted, last, nm, auxVars>>

\* except Exception: two guarded blocks.  closed tells whether the first one
\* (close every window but one, switch to the first) ran through, anchored
\* whether the second one (driver.get(START_URL) when off the list page) did;
\* a block that raises at its first driver call changes nothing.
Recover(h, f, closed, anchored) ==
  LET h1 == IF closed THEN <<h[1]>> ELSE h
      f1 == IF closed THEN 1 ELSE f
  IN  <<IF anchored /\ ~OnList(h1[f1]) THEN GetStartUrl(h1, f1) ELSE h1, f1>>

ExceptWith(closed, anchored) ==
  /\ handles' = Recover(handles, focus, closed, anchored)[1]
  /\ focus' = Recover(handles, focus, closed, anchored)[2]
  /\ pc' = "loop"
  /\ last' = "recovered"
  /\ UNCHANGED <<cfgVars, locVars, mainVars, attempted, nm, auxVars>>

Except ==
  /\ pc = "except"
  /\ ExceptWith(TRUE, TRUE)
  /\ Quiet

\* a cleanup block of the handler raises itself: swallowed by its own except
ExceptCleanupFails ==
  /\ pc = "except"
  /\ CanFail /\ Fail
  /\ \E b \in {<<FALSE, TRUE>>, <<TRUE, FALSE>>, <<FALSE, FALSE>>} : ExceptWith(b[1], b[2])

\* click_next_if_available with current window c: a usable Next control exists
\* on a list page that is not the last one.
HasNext(c) == OnList(c) /\ c.n < Len(pageRows)

\* After the row loop: the page cap, then the Next click.
PageEnd ==
  /\ pc = "page_end"
  /\ IF PageCapReached(max_pages, page_idx) \/ ~HasNext(cur)
     THEN /\ pc' = "ret"
          /\ UNCHANGED handles
     ELSE /\ handles' = [handles EXCEPT ![focus] = ListCtx(cur.n + 1)]
          /\ pc' = "page_top"
  /\ UNCHANGED <<cfgVars, locVars, focus, mainVars, attempted, last, nfaults, nm, auxVars>>

\* The Next click is intercepted, or goto_events_section times out after it:
\* nothing in process_all catches it.
PageEndRaises ==
  /\ pc = "page_end"
  /\ ~PageCapReached(max_pages, page_idx)
  /\ CanFail /\ Fail
  /\ pc' = "raised"
  /\ UNCHANGED <<cfgVars, locVars, drvVars, mainVars, attempted, last, nm, auxVars>>

Next ==
  \/ MainOpen \/ MainOpenRaises \/ Return \/ Caught \/ Finally \/ FinallySaveFails
  \/ PageTop \/ PageTopRaises \/ LoopHead
  \/ RowQuery \/ RowQueryShrunk \/ RowQueryRaises
  \/ Cells \/ CellsNarrow \/ CellsRaises
  \/ Open \/ OpenOdd \/ OpenRaises
  \/ Ready \/ ReadyStuck \/ ReadyRaises
  \/ Skip \/ SkipRaises
  \/ Extract \/ ExtractRaises
  \/ Close \/ CloseRaises
  \/ Except \/ ExceptCleanupFails
  \/ PageEnd \/ PageEndRaises

Spec == Init /\ [][Next]_vars

\* The naming of one event, for every combination of the sample texts.
InitName ==
  /\ nm \in [l1 : Lookups(TitleTexts), l2 : Lookups(TitleTexts), l3 : Lookups(TitleTexts),
             cell : Lookups(CellTexts), name : {""}]
  /\ pc = "name"
  /\ pageRows = <<1>>
  /\ start_index = 1
  /\ end_index = NoEnd
  /\ limit = 0
  /\ max_pages = 0
  /\ page_idx = 0
  /\ i = 0
  /\ global_row = 0
  /\ rows = 0
  /\ row = 0
  /\ all_events = <<>>
  /\ handles = <<Blank>>
  /\ focus = 1
  /\ results = <<>>
  /\ out_json = <<>>
  /\ written = FALSE
  /\ attempted = <<>>
  /\ last = "none"
  /\ nfaults = 0
  /\ lab = <<>>
  /\ att = <<>>
  /\ txt = <<>>
  /\ clk = <<>>
  /\ nxt = <<>>

\* event_name = get_event_name_from_row(row); ...; data["Event Name"] = event_name
NameEvent ==
  /\ pc = "name"
  /\ nm' = [nm EXCEPT !.name = EventName(get_event_name_from_details_page(nm.l1, nm.l2, nm.l3),
                                         get_event_name_from_row(nm.cell))]
  /\ pc' = "named"
  /\ UNCHANGED <<cfgVars, locVars, drvVars, mainVars, attempted, last, nfaults, auxVars>>

SpecName == InitName /\ [][NameEvent]_vars

\* ----------------------------------------------------------------- claims
Min(a, b) == IF a < b THEN a ELSE b

\* A finished run with --upto given, no --limit, no --max-pages, in which the
\* browser never deviated (no call raised, every click opened its tab at once,
\* every detail page loaded, every row had its cells).
CleanRangeRun ==
  pc = "done" /\ nfaults = 0 /\ limit = 0 /\ max_pages = 0 /\ end_index /= NoEnd

RangeCount ==
  IF start_index <= totalRows THEN Min(end_index, totalRows) - start_index + 1 ELSE 0

\* C1 as stated: for every range [s,e] of non-negative integers, s <= e, a
\* clean run attempts min(e, totalRows) - s + 1 rows when s <= totalRows and
\* none when s > totalRows.
C1_AttemptsInRange == CleanRangeRun => Len(attempted) = RangeCount

\* C1 amended: the count holds for every range [s,e] with 1 <= s <= e (rows
\* are numbered from 1: --upto 0-e attempts rows 1..min(e, totalRows)).
C1_AttemptsInRangeFromOne ==
  CleanRangeRun /\ start_index >= 1 => Len(attempted) = RangeCount

C1_Witness ==
  /\ CleanRangeRun
  /\ Len(pageRows) >= 2
  /\ 2 <= start_index /\ start_index <= totalRows /\ totalRows < end_index
  /\ Len(attempted) = totalRows - start_index + 1

\* C2: global_row grows by exactly one on every row visit (the step that
\* advances the working index i) and changes on no other step, the start of a
\* new page included; so in a run without deviations the first row of page 2
\* has index (rows of page 1) + 1.
C2_GlobalRowCounts ==
  [][/\ (i' = i + 1 => global_row' = global_row + 1)
     /\ (i' /= i + 1 => global_row' = global_row)
     /\ (nfaults' = 0 /\ page_idx' = 2 /\ i' = 1 => global_row' = pageRows[1] + 1)]_vars

C2_Witness ==
  /\ pc = "cells" /\ page_idx = 2 /\ i = 1
  /\ pageRows[1] >= 2 /\ global_row = pageRows[1] + 1

\* C3 as stated, already for runs without any deviation of the browser: once
\* row end_index has been visited and its step is over, the run ends at once:
\* no Next click, no new page, no re-navigation; the records are returned.
C3_RangeEndStopsRun ==
  [][(/\ end_index >= 1 /\ global_row >= end_index
      /\ pc \in {"loop", "page_end"} /\ nfaults' = 0)
       => /\ pc' \in {"ret", "page_end"}
          /\ handles' = handles
          /\ page_idx' = page_idx]_vars

\* a record extracted from the detail page of list row r
RecordOf(r) == [row |-> r, src |-> Detail(r)]

\* C4: two pages of three rows, --upto 2-4, no limit, every detail page
\* loading normally: process_all returns exactly the records of rows 2, 3, 4,
\* in this order.
C4_Scenario ==
  (/\ pageRows = <<3, 3>> /\ start_index = 2 /\ end_index = 4
   /\ limit = 0 /\ max_pages = 0 /\ nfaults = 0
   /\ pc \in {"ret", "finally", "done"})
    => /\ all_events = <<RecordOf(2), RecordOf(3), RecordOf(4)>>
       /\ pc /= "ret" => results = all_events

C4_Witness ==
  /\ pageRows = <<3, 3>> /\ start_index = 2 /\ end_index = 4
  /\ limit = 0 /\ max_pages = 0 /\ nfaults = 0
  /\ pc = "done" /\ Len(results) = 3 /\ page_idx = 2

\* C5 as stated: whatever ended the traversal, the array written by main
\* holds exactly the records collected so far.
C5_PartialResultsWritten == (pc = "done" /\ written) => out_json = all_events

C7_ContextCount ==
  /\ pc \in {"loop", "try", "cells", "open", "page_end"}
       => (Len(handles) = 1 /\ OnList(handles[1]))
  /\ pc \in {"ready", "extract", "skip", "close", "except"} => Len(handles) <= 2

\* C8 as stated, already for a handler whose own cleanup calls all succeed: the
\* handler never lets the exception out, keeps the records, leaves one
\* context, on the list page, and the traversal goes on with the next row: the
\* list still shows the page the row loop is working on.
C8_RowExceptionAbsorbed ==
  [][(/\ pc = "except"
      /\ handles' = Recover(handles, focus, TRUE, TRUE)[1]
      /\ focus' = Recover(handles, focus, TRUE, TRUE)[2])
       => /\ pc' = "loop"
          /\ all_events' = all_events
          /\ Len(handles') = 1
          /\ OnList(handles'[focus'])
          /\ i > 0 => RowAt(handles'[focus'].n, i) = row]_vars

\* C9: with limit > 0 the collection never holds more than limit records, and
\* once it holds limit records no row is picked, opened or extracted any more.
C9_LimitRespected ==
  limit > 0
    => /\ Len(all_events) <= limit
       /\ Len(all_events) = limit
            => pc \notin {"try", "cells", "open", "ready", "skip", "extract"}

C9_Witness ==
  /\ limit > 0 /\ Len(all_events) = limit
  /\ pc = "done" /\ global_row < totalRows /\ Len(results) = limit

\* C10: the "Event Name" of a record is never empty: it is the details-page
\* title when one is found, else the normalized list-row label when that is not
\* empty, else "Unknown Event Name"; with no title and no label it is exactly
\* the placeholder.
C10_EventNameNeverEmpty ==
  pc = "named"
    => LET title == get_event_name_from_details_page(nm.l1, nm.l2, nm.l3)
           label == get_event_name_from_row(nm.cell)
           norm == clean_text(Some(label))
       IN  /\ nm.name /= ""
           /\ title /= None => nm.name = title[1]
           /\ (title = None /\ norm /= None) => nm.name = norm[1]
           /\ (title = None /\ norm = None) => nm.name = "Unknown Event Name"
           /\ (title = None /\ label = "") => nm.name = "Unknown Event Name"

\* title elements are found but rejected, the row has no label
C10_Witness ==
  /\ pc = "named"
  /\ nm.l1 = Found(Some("Details")) /\ nm.l2 = Found(NoText) /\ nm.l3 = Absent
  /\ nm.cell = Found(Some(" \n "))
  /\ nm.name = "Unknown Event Name"

\* ------------------------------------------------- details label extraction
LABELS ==
  <<"Event ID", "Dept", "Dept:", "Department", "Format/Type", "Format/Type:",
    "Event Version", "Published Date", "Event End Date", "Event End Date:">>

\* t.rstrip(":")
RStripColon(t) ==
  LET keep == {k \in 1..Len(t) : Char(t, k) /= ":"}
  IN  IF keep = {} THEN "" ELSE SubSeq(t, 1, CHOOSE k \in keep : \A j \in keep : j <= k)

is_label(text) ==
  LET t == RStripColon(Strip(text))
  IN  \E n \in 1..Len(LABELS) : t = RStripColon(LABELS[n])

\* mutant: the prefix test against the other labels left out
find_value_no_prefix_test(el, label) ==
  IF el = Absent THEN None
  ELSE LET t == clean_text(Some(raw_text(el[1])))
       IN  IF t = None THEN None ELSE IF is_label(t[1]) THEN None ELSE t

\* find_value_by_label, el being the result of its element lookup: Absent
\* when find_element raises NoSuchElementException.
find_value_by_label(el, label) ==
  IF el = Absent THEN None
  ELSE LET t == clean_text(Some(raw_text(el[1])))
       IN  IF t = None THEN None
           ELSE IF is_label(t[1]) THEN None
           ELSE IF \E n \in 1..Len(LABELS) : LABELS[n] /= label /\ StartsWith(t[1], LABELS[n])
                THEN None
           ELSE t

IsDigit(c) == c \in {"0", "1", "2", "3", "4", "5", "6", "7", "8", "9"}

\* re.search(r"\d+", v): the first run of digits of v, None when v has none.
FirstDigits(v) ==
  LET ds == {k \in 1..Len(v) : IsDigit(Char(v, k))}
  IN  IF ds = {} THEN None
      ELSE LET a == Least(ds)
               b == Least({k \in a..Len(v) : k = Len(v) \/ ~IsDigit(Char(v, k + 1))})
           IN  Some(SubSeq(v, a, b))

\* label_map.items(), in insertion order
label_map ==
  <<<<"Event ID", "Event ID">>, <<"Dept:", "Dept">>, <<"Dept", "Dept">>,
    <<"Department", "Dept">>, <<"Format/Type:", "Format/Type">>,
    <<"Format/Type", "Format/Type">>, <<"Event Version", "Event Version">>,
    <<"Published Date", "Published Date">>, <<"Event End Date:", "Event End Date">>,
    <<"Event End Date", "Event End Date">>>>

DetailKeys == {label_map[n][2] : n \in 1..Len(label_map)}

\* details: Dict[str, str] = {}: a key not in the dict maps to None.
NoDetails == [key \in DetailKeys |-> None]

\* Sample texts of the elements the lookups find.
ValueTexts ==
  {"", "  Judicial \n Branch ", "Format/Type", " Dept: ", "Event ID 0000123",
   "Version 12 rev 3", BANNER_SNIPPET}

\* The first block of extract_label_values: Dept from the data-if-label
\* attribute, dept_span being the result of the lookup.
DeptFromAttribute(details, dept_span) ==
  IF dept_span = Absent THEN details
  ELSE LET dept_val == clean_text(Some(raw_text(dept_span[1])))
       IN  IF dept_val /= None THEN [details EXCEPT !["Dept"] = dept_val] ELSE details

\* One pass of `for label, key in label_map.items()`, el being the result of
\* the lookup find_value_by_label makes for this label.
LabelPass(details, label, key, el) ==
  IF key = "Dept" /\ details["Dept"] /= None THEN details
  ELSE LET v == find_value_by_label(el, label)
           m == IF v = None THEN None ELSE FirstDigits(v[1])
           v1 == IF key = "Event Version" /\ m /= None THEN m ELSE v
       IN  IF v = None THEN details
           ELSE IF details[key] = None THEN [details EXCEPT ![key] = v1]
           ELSE details

\* What no action of the label extraction touches.
Parked ==
  /\ pageRows = <<1>>
  /\ start_index = 1
  /\ end_index = NoEnd
  /\ limit = 0
  /\ max_pages = 0
  /\ page_idx = 0
  /\ i = 0
  /\ global_row = 0
  /\ rows = 0
  /\ row = 0
  /\ all_events = <<>>
  /\ handles = <<Blank>>
  /\ focus = 1
  /\ results = <<>>
  /\ out_json = <<>>
  /\ written = FALSE
  /\ attempted = <<>>
  /\ last = "none"
  /\ nfaults = 0
  /\ clk = <<>>
  /\ nxt = <<>>

ParkedVarsNoFaults == <<cfgVars, locVars, drvVars, mainVars, attempted, last, clk, nxt>>

ParkedVars == <<ParkedVarsNoFaults, nfaults>>

InitLabels ==
  /\ Parked
  /\ pc = "dept_attr"
  /\ lab = [k |-> 0, details |-> NoDetails]
  /\ nm = <<>>
  /\ att = <<>>
  /\ txt = <<>>

DeptAttribute ==
  /\ pc = "dept_attr"
  /\ \E dept_span \in Lookups(ValueTexts) :
       lab' = [k |-> 1, details |-> DeptFromAttribute(lab.details, dept_span)]
  /\ pc' = "label_loop"
  /\ UNCHANGED <<ParkedVars, nm, att, txt>>

LabelStep ==
  /\ pc = "label_loop"
  /\ lab.k <= Len(label_map)
  /\ \E el \in Lookups(ValueTexts) :
       lab' = [k |-> lab.k + 1,
               details |-> LabelPass(lab.details, label_map[lab.k][1], label_map[lab.k][2], el)]
  /\ UNCHANGED <<pc, ParkedVars, nm, att, txt>>

\* return details
LabelsReturn ==
  /\ pc = "label_loop"
  /\ lab.k > Len(label_map)
  /\ pc' = "labelled"
  /\ UNCHANGED <<ParkedVars, nm, auxVars>>

NextLabels == DeptAttribute \/ LabelStep \/ LabelsReturn

SpecLabels == InitLabels /\ [][NextLabels]_vars

\* C11 as stated: no value of the details mapping is itself a known label,
\* whichever path produced it, the Dept attribute path included.
C11_NoLabelValues ==
  pc \in {"label_loop", "labelled"}
    => \A key \in DetailKeys : lab.details[key] /= None => ~is_label(lab.details[key][1])

\* ---------------------------------------------------------- get_attachments
\* att.loc is the page the detail context shows ("detail": the event page
\* get_attachments started from, "package": the event package page), att.n the
\* live number of rows of the attachments table, att.popup whether a download
\* popup is open, att.closed whether a popup close was attempted in the
\* current row, att.dup whether a link was left out as already present.
Hrefs ==
  {None, Some(""), Some(" # "), Some(" https://host/a.pdf "), Some("https://host/a.pdf"),
   Some("https://host/b.pdf")}

InSeq(x, q) == \E k \in 1..Len(q) : q[k] = x

\* mutant: the membership test left out
CaptureNoDedup(attachments, h) ==
  LET href == Strip(IF h = None THEN "" ELSE h[1])
  IN  IF href /= "" /\ href /= "#" THEN Append(attachments, href) ELSE attachments

\* href = (a.get_attribute("href") or "").strip(), appended if non-empty, not
\* "#" and not already present; h is the attribute, None when it is missing.
Capture(attachments, h) ==
  LET href == Strip(IF h = None THEN "" ELSE h[1])
  IN  IF href /= "" /\ href /= "#" /\ ~InSeq(href, attachments)
      THEN Append(attachments, href)
      ELSE attachments

AttIdle == [loc |-> "detail", n |-> 0, idx |-> 0, attachments |-> <<>>,
            popup |-> FALSE, closed |-> FALSE, dup |-> FALSE]

InitAttach ==
  /\ Parked
  /\ pc = "att_start"
  /\ att = AttIdle
  /\ nm = <<>>
  /\ lab = <<>>
  /\ txt = <<>>

AttFrame == UNCHANGED <<ParkedVarsNoFaults, nm, lab, txt>>

\* No "View Event Package" control: return attachments
AttNoPackage ==
  /\ pc = "att_start"
  /\ pc' = "att_ret"
  /\ UNCHANGED att /\ Quiet /\ AttFrame

\* The package control is clicked and the first row of the table appears.
AttOpenPackage ==
  /\ pc = "att_start"
  /\ \E l \in {"detail", "package"}, n \in 1..MaxAttRows :
       att' = [att EXCEPT !.loc = l, !.n = n, !.idx = 0]
  /\ pc' = "att_loop"
  /\ Quiet /\ AttFrame

\* TimeoutException of the table wait: driver.get(detail_url); return
AttTableTimeout ==
  /\ pc = "att_start"
  /\ CanFail /\ Fail
  /\ att' = [att EXCEPT !.loc = "detail"]
  /\ pc' = "att_ret"
  /\ AttFrame

\* The click and its scripted retry both raise, or a lookup raises something
\* else than NoSuchElementException.
AttOpenRaises ==
  /\ pc = "att_start"
  /\ CanFail /\ Fail
  /\ pc' = "att_raised"
  /\ UNCHANGED att /\ AttFrame

\* rows = current_rows() found n rows: break, or tr = rows[idx]; idx += 1
AttPickRow(n) ==
  /\ pc' = IF att.idx >= n THEN "att_return" ELSE "att_row"
  /\ att' = [att EXCEPT !.n = n,
                        !.idx = IF att.idx >= n THEN att.idx ELSE att.idx + 1,
                        !.closed = FALSE]
  /\ AttFrame

AttRows ==
  /\ pc = "att_loop"
  /\ AttPickRow(att.n)
  /\ Quiet

\* the table re-rendered with fewer rows
AttRowsShrunk ==
  /\ pc = "att_loop"
  /\ CanFail /\ Fail
  /\ \E n \in 0..(att.n - 1) : AttPickRow(n)

\* current_rows() is called outside the try block
AttRowsRaises ==
  /\ pc = "att_loop"
  /\ CanFail /\ Fail
  /\ pc' = "att_raised"
  /\ UNCHANGED att /\ AttFrame

\* clickable is None: continue
AttNoTrigger ==
  /\ pc = "att_row"
  /\ pc' = "att_loop"
  /\ UNCHANGED att /\ Quiet /\ AttFrame

\* the trigger is clicked (by click() or by the scripted retry)
AttClick ==
  /\ pc = "att_row"
  /\ att' = [att EXCEPT !.popup = TRUE]
  /\ pc' = "att_popup"
  /\ Quiet /\ AttFrame

\* except StaleElementReferenceException: continue
AttRowStale ==
  /\ pc = "att_row"
  /\ CanFail /\ Fail
  /\ pc' = "att_loop"
  /\ UNCHANGED att /\ AttFrame

\* any other exception on the way to the popup
AttRowRaises ==
  /\ pc = "att_row"
  /\ CanFail /\ Fail
  /\ pc' = "att_except"
  /\ UNCHANGED att /\ AttFrame

\* A popup close: the Close control is clicked when there is one (found), the
\* Escape key event is sent instead where the code does so (escape).
ClosePopup(a, found, escape) ==
  [a EXCEPT !.popup = IF found \/ escape THEN FALSE ELSE a.popup, !.closed = TRUE]

\* TimeoutException of the popup wait: best-effort close, continue
AttPopupTimeout ==
  /\ pc = "att_popup"
  /\ CanFail /\ Fail
  /\ \E found \in BOOLEAN : att' = ClosePopup(att, found, FALSE)
  /\ pc' = "att_loop"
  /\ AttFrame

\* the link is read and kept, the popup closed
AttCapture ==
  /\ pc = "att_popup"
  /\ \E h \in Hrefs, found \in BOOLEAN :
       att' = [ClosePopup(att, found, TRUE) EXCEPT
                 !.attachments = Capture(att.attachments, h),
                 !.dup = att.dup \/ (h /= None /\ InSeq(Strip(h[1]), att.attachments))]
  /\ pc' = "att_loop"
  /\ Quiet /\ AttFrame

\* the popup re-rendered under the lookup: StaleElementReferenceException,
\* continue
AttPopupStale ==
  /\ pc = "att_popup"
  /\ CanFail /\ Fail
  /\ pc' = "att_loop"
  /\ UNCHANGED att /\ AttFrame

\* any other exception with the popup open, the failure of both clicks of a
\* Close control included
AttPopupRaises ==
  /\ pc = "att_popup"
  /\ CanFail /\ Fail
  /\ pc' = "att_except"
  /\ UNCHANGED att /\ AttFrame

\* except Exception: best-effort close, continue
AttHandler ==
  /\ pc = "att_except"
  /\ \E found \in BOOLEAN : att' = ClosePopup(att, found, FALSE)
  /\ pc' = "att_loop"
  /\ Quiet /\ AttFrame

\* In the handler only NoSuchElementException is caught: the Close lookup
\* raising something else, or both clicks of the Close control raising.
AttHandlerRaises ==
  /\ pc = "att_except"
  /\ CanFail /\ Fail
  /\ pc' = "att_raised"
  /\ UNCHANGED att /\ AttFrame

\* The Return control is clicked and the event page is back within the sleep.
AttReturnClick ==
  /\ pc = "att_return"
  /\ att' = [att EXCEPT !.loc = "detail"]
  /\ pc' = "att_ret"
  /\ Quiet /\ AttFrame

\* The Return control is clicked; after time.sleep(2) the context still shows
\* the page it was on.
AttReturnSlow ==
  /\ pc = "att_return"
  /\ CanFail /\ Fail
  /\ pc' = "att_ret"
  /\ UNCHANGED att /\ AttFrame

\* No Return control: driver.get(detail_url)
AttReturnNavigate ==
  /\ pc = "att_return"
  /\ att' = [att EXCEPT !.loc = "detail"]
  /\ pc' = "att_ret"
  /\ Quiet /\ AttFrame

AttReturnRaises ==
  /\ pc = "att_return"
  /\ CanFail /\ Fail
  /\ pc' = "att_raised"
  /\ UNCHANGED att /\ AttFrame

NextAttach ==
  \/ AttNoPackage \/ AttOpenPackage \/ AttTableTimeout \/ AttOpenRaises
  \/ AttRows \/ AttRowsShrunk \/ AttRowsRaises
  \/ AttNoTrigger \/ AttClick \/ AttRowStale \/ AttRowRaises
  \/ AttPopupTimeout \/ AttCapture \/ AttPopupStale \/ AttPopupRaises
  \/ AttHandler \/ AttHandlerRaises
  \/ AttReturnClick \/ AttReturnSlow \/ AttReturnNavigate \/ AttReturnRaises

SpecAttach == InitAttach /\ [][NextAttach]_vars

NoRepeat(q) == \A a, b \in 1..Len(q) : a /= b => q[a] /= q[b]

\* C12: at every point of get_attachments the collection has no duplicate, no
\* empty string and no "#"; each step appends at most one link and removes
\* none.
C12_AttachmentsSet ==
  pc \in {"att_start", "att_loop", "att_row", "att_popup", "att_except", "att_return",
          "att_ret", "att_raised"}
    => /\ NoRepeat(att.attachments)
       /\ ~InSeq("", att.attachments)
       /\ ~InSeq("#", att.attachments)

\* two rows resolved to the same link: one entry
C12_Witness ==
  /\ pc = "att_ret" /\ att.idx = 2 /\ att.dup
  /\ att.attachments = <<"https://host/a.pdf">>

\* C13 as stated: whenever get_attachments has returned, the context shows the
\* detail page it started from.
C13_BackOnDetailPage == pc = "att_ret" => att.loc = "detail"

\* C14 as stated: no step of the handling of a row lets an exception out of
\* get_attachments or drops a link, and a row that ends with its popup open
\* has had a close attempted.
C14_RowFailureAbsorbed ==
  [][(pc \in {"att_row", "att_popup", "att_except"})
       => /\ pc' /= "att_raised"
          /\ Len(att'.attachments) >= Len(att.attachments)
          /\ SubSeq(att'.attachments, 1, Len(att.attachments)) = att.attachments
          /\ ((pc' = "att_loop" /\ att'.popup) => att'.closed)]_vars

\* --------------------------------------------------------------- clean_text
\* The input strings explored: "  A\n\nB  " and every concatenation of up to
\* MaxPieces of these pieces (the banner, the banner with a line break in
\* place of its first blank, a prefix and the rest of the banner, text,
\* whitespace).
BannerBroken == "All\n" \o Drop(BANNER_SNIPPET, 4)

Pieces ==
  {" ", "\n\t", "A", "Bid", BANNER_SNIPPET, BannerBroken, "All", Drop(BANNER_SNIPPET, 3)}

RECURSIVE Concat(_)
Concat(q) == IF Len(q) = 0 THEN "" ELSE q[1] \o Concat(Tail(q))

CleanInputs ==
  {"  A\n\nB  "} \cup {Concat(q) : q \in UNION {[1..n -> Pieces] : n \in 0..MaxPieces}}

InitClean ==
  /\ Parked
  /\ pc = "clean"
  /\ txt \in [in : CleanInputs, out : {None}]
  /\ nm = <<>>
  /\ lab = <<>>
  /\ att = <<>>

CleanText ==
  /\ pc = "clean"
  /\ txt' = [txt EXCEPT !.out = clean_text(Some(txt.in))]
  /\ pc' = "cleaned"
  /\ UNCHANGED <<ParkedVars, nm, lab, att>>

SpecClean == InitClean /\ [][CleanText]_vars

\* C15 as stated: clean_text returns None exactly when the input is empty or
\* only whitespace and banner text remain; otherwise a string without the
\* banner snippet, without leading or trailing whitespace and with no
\* whitespace but single spaces; "  A\n\nB  " gives "A B".
C15_CleanTextNormalizes ==
  pc = "cleaned"
    => /\ txt.out = None <=> NonSpaces(Replace(txt.in, BANNER_SNIPPET)) = {}
       /\ txt.out /= None
            => /\ ~Contains(txt.out[1], BANNER_SNIPPET)
               /\ Strip(txt.out[1]) = txt.out[1]
               /\ \A k \in Spaces(txt.out[1]) :
                    Char(txt.out[1], k) = " " /\ k + 1 \notin Spaces(txt.out[1])
       /\ txt.in = "  A\n\nB  " => txt.out = Some("A B")

\* ------------------------------------------------------ find_value_by_label
\* A page is the sequence of its elements in document order; an element has
\* its string value (str) and the text Selenium reads from it (text, NoText
\* for an element that is not rendered).
NormalizeSpace(t) == Strip(CollapseSpace(t))

Shown(t) == [str |-> t, text |-> Some(t)]

Elements ==
  {Shown(t) : t \in {"Dept:", " Dept ", "Event ID", "", " \n ", "Judicial Branch",
                     "Format/Type", " Judicial \n Branch ", "Event ID 0000123"}}
    \cup {[str |-> "Fiscal", text |-> NoText]}

Pages == UNION {[1..n -> Elements] : n \in 0..MaxElems}

\* (//*[normalize-space(text())='label'])[1]/following::*[normalize-space()!=''][1]
LabelLookup(page, label) ==
  LET ks == {k \in 1..Len(page) : NormalizeSpace(page[k].str) = label}
      js == {j \in 1..Len(page) : j > Least(ks) /\ NormalizeSpace(page[j].str) /= ""}
  IN  IF ks = {} THEN Absent
      ELSE IF js = {} THEN Absent
      ELSE Found(page[Least(js)].text)

\* the labels looked up
AskedLabels == {"Dept:", "Dept", "Event ID", "Format/Type"}

InitFind ==
  /\ Parked
  /\ pc = "find"
  /\ lab \in [page : Pages, label : AskedLabels, out : {None}]
  /\ nm = <<>>
  /\ att = <<>>
  /\ txt = <<>>

FindValue ==
  /\ pc = "find"
  /\ lab' = [lab EXCEPT !.out = find_value_by_label(LabelLookup(lab.page, lab.label), lab.label)]
  /\ pc' = "found"
  /\ UNCHANGED <<ParkedVars, nm, att, txt>>

SpecFind == InitFind /\ [][FindValue]_vars

\* a recognized label, with or without trailing colon
RecognizedLabel(t) == \E n \in 1..Len(LABELS) : RStripColon(t) = RStripColon(LABELS[n])

\* C16: the result is the normalized text of the first non-empty element that
\* follows the first element whose text is the label; it is None exactly when
\* the lookup finds no such element, the candidate is empty after
\* normalization, is a recognized label, or begins with the text of a label
\* other than the one asked for.  "Dept:" before "Judicial Branch" gives
\* "Judicial Branch"; "Dept" before "Format/Type" gives None.
C16_FindValueByLabel ==
  pc = "found"
    => LET el == LabelLookup(lab.page, lab.label)
           cand == IF el = Absent THEN None ELSE clean_text(Some(raw_text(el[1])))
           refused == \/ cand = None
                      \/ RecognizedLabel(cand[1])
                      \/ \E n \in 1..Len(LABELS) :
                           LABELS[n] /= lab.label /\ StartsWith(cand[1], LABELS[n])
       IN  /\ lab.out = None <=> refused
           /\ lab.out /= None => lab.out = cand
           /\ (lab.label = "Dept:" /\ lab.page = <<Shown("Dept:"), Shown("Judicial Branch")>>)
                => lab.out = Some("Judicial Branch")
           /\ (lab.label = "Dept" /\ lab.page = <<Shown(" Dept "), Shown("Format/Type")>>)
                => lab.out = None

\* the value follows its label after an empty element, with blanks to normalize
C16_Witness ==
  /\ pc = "found"
  /\ lab.label = "Dept:"
  /\ lab.page = <<Shown("Dept:"), Shown(" \n "), Shown(" Judicial \n Branch ")>>
  /\ lab.out = Some("Judicial Branch")

\* ------------------------------------------------- claims on the row steps
\* C17 as stated: after every row step, whatever its outcome, the focused
\* context shows the list page before the next row is visited or the page is
\* advanced.
C17_FocusOnListAfterRow ==
  (pc \in {"loop", "try", "page_end"} /\ last /= "none") => OnList(cur)

\* C18: the step that visits a row below start_index advances global_row and
\* the working index by one, goes back to the head of the row loop, and leaves
\* the contexts, the focus, the locations, the records and the list of rows
\* opened as they were.
C18_BelowRangeSkipped ==
  [][(pc = "try" /\ i' = i + 1 /\ global_row + 1 < start_index)
       => /\ global_row' = global_row + 1
          /\ pc' = "loop"
          /\ handles' = handles
          /\ focus' = focus
          /\ all_events' = all_events
          /\ attempted' = attempted]_vars

\* the last row below a range starting at 3 was passed over
C18_Witness ==
  /\ pc = "loop" /\ last = "below"
  /\ start_index = 3 /\ global_row = 2 /\ i = 2
  /\ handles = <<ListCtx(1)>> /\ attempted = <<>> /\ all_events = <<>>

\* C19: a row is visited only in the step that re-queries the rows, and is
\* within the count just found; a query that finds no row at the working
\* index ends the row loop of the page: the traversal goes to the page-advance
\* step with the counters and the records unchanged, and nothing is raised.
C19_RequeryBeforeVisit ==
  [][/\ i' = i + 1 => (pc = "try" /\ i < rows')
     /\ (pc = "try" /\ pc' /= "except" /\ rows' <= i)
          => /\ pc' = "page_end"
             /\ i' = i
             /\ global_row' = global_row
             /\ all_events' = all_events]_vars

\* the table shrank under the working index after a record was collected
C19_Witness ==
  /\ pc = "page_end" /\ OnList(cur)
  /\ rows <= i /\ i < get_event_rows(cur) /\ global_row = i
  /\ Len(all_events) = 1

\* ------------------------------------------------------ robust_open_new_tab
\* Every behaviour of the page on the click, with and without a target URL.
AllClicks ==
  {o \in [click : {"tab", "same", "none", "late"}, guess : BOOLEAN, when : {"before", "after"}] :
     o.click /= "late" => o.when = "before"}

\* The contexts the function is called with: the list page alone, or with a
\* context left over from an earlier row.
OpenHandles == {<<ListCtx(1)>>, <<ListCtx(1), Detail(1)>>}

InitOpen ==
  /\ pageRows \in {s \in Layouts : Len(s) = 1}
  /\ start_index = 1
  /\ end_index = NoEnd
  /\ limit = 0
  /\ max_pages = 0
  /\ pc = "click"
  /\ page_idx = 1
  /\ i = 0
  /\ global_row = 0
  /\ rows = pageRows[1]
  /\ row \in 1..pageRows[1]
  /\ all_events = <<>>
  /\ handles \in OpenHandles
  /\ focus \in 1..Len(handles)
  /\ results = <<>>
  /\ out_json = <<>>
  /\ written = FALSE
  /\ attempted = <<>>
  /\ last = "none"
  /\ nfaults = 0
  /\ nm = <<>>
  /\ lab = <<>>
  /\ att = <<>>
  /\ txt = <<>>
  /\ clk \in [o : AllClicks, before : {Len(handles)}]
  /\ nxt = <<>>

\* robust_open_new_tab(driver, clickable, url_guess)
OpenTab ==
  /\ pc = "click"
  /\ handles' = robust_open_new_tab(handles, focus, row, clk.o)[1]
  /\ focus' = robust_open_new_tab(handles, focus, row, clk.o)[2]
  /\ pc' = "clicked"
  /\ UNCHANGED <<cfgVars, locVars, mainVars, attempted, last, nfaults, nm, auxVars>>

SpecOpen == InitOpen /\ [][OpenTab]_vars

\* C20: of the contexts the call adds, at most one is opened by force, and one
\* is only when the click had added none by the time of the check and a target
\* URL is known; on return the focus is on the last context of the list (a
\* context the page opens after the return is not counted).
C20_ForceOpenOnlyWhenNeeded ==
  pc = "clicked"
    => LET added == Len(handles) - clk.before
           byPage == IF clk.o.click \in {"tab", "late"} THEN 1 ELSE 0
           atCheck == IF clk.o.click = "tab" THEN 1 ELSE 0
           afterReturn == IF clk.o.click = "late" /\ clk.o.when = "after" THEN 1 ELSE 0
           forced == added - byPage
       IN  /\ forced \in {0, 1}
           /\ forced = 1 => (atCheck = 0 /\ clk.o.guess)
           /\ focus = Len(handles) - afterReturn

\* nothing opened on the click, the guessed URL was opened by force
C20_Witness ==
  /\ pc = "clicked"
  /\ clk.o.click = "none" /\ clk.o.guess
  /\ Len(handles) = clk.before + 1 /\ focus = Len(handles)
  /\ handles[focus] = Pending(row)

\* ------------------------------------------------ click_next_if_available
\* A candidate of a selector strategy: an element with the text Next; styled
\* tells whether its class contains "disabled".
Control(s, d, e) == [styled |-> s, displayed |-> d, enabled |-> e]

\* a disabled-styled control, a hidden one, a disabled one, a usable one
Controls ==
  {Control(TRUE, TRUE, TRUE), Control(FALSE, FALSE, TRUE), Control(FALSE, TRUE, FALSE),
   Control(FALSE, TRUE, TRUE)}

\* driver.find_element(By.XPATH, xp) over the candidates cs of one strategy, in
\* document order: the first one not disabled-styled, Absent for
\* NoSuchElementException.
FindNext(cs) ==
  LET ks == {k \in 1..Len(cs) : ~cs[k].styled}
  IN  IF ks = {} THEN Absent ELSE Found(cs[Least(ks)])

\* btn.is_displayed() and btn.is_enabled()
Usable(el) == el /= Absent /\ el[1].displayed /\ el[1].enabled

\* mutant: the first control found is clicked whatever its state
click_next_unchecked(cands, missing) ==
  LET found == {k \in 1..Len(cands) : FindNext(cands[k]) /= Absent}
      done == {k \in found : k \notin missing}
  IN  IF done = {} THEN [clicks |-> found, ret |-> FALSE]
      ELSE [clicks |-> {k \in found : k <= Least(done)}, ret |-> TRUE]

\* click_next_if_available over the candidates of the three strategies.
\* missing holds the strategies after whose click goto_events_section raises
\* NoSuchElementException (no EVENTS heading yet), which the except clause of
\* the loop catches, so that the loop goes on with the next strategy.  The
\* strategies whose control is clicked, and the value returned.
click_next_if_available(cands, missing) ==
  LET usable == {k \in 1..Len(cands) : Usable(FindNext(cands[k]))}
      done == {k \in usable : k \notin missing}
  IN  IF done = {} THEN [clicks |-> usable, ret |-> FALSE]
      ELSE [clicks |-> {k \in usable : k <= Least(done)}, ret |-> TRUE]

CandidateLists == UNION {[1..n -> Controls] : n \in 0..MaxCands}

\* what the three XPaths match on a page; the last one is given one match less
Candidates ==
  {c \in [1..3 -> CandidateLists] : Len(c[3]) < MaxCands}

\* The end of page 1 of a list of four pages, with or without a record
\* collected.
InitNext ==
  /\ pageRows = <<1, 1, 1, 1>>
  /\ start_index = 1
  /\ end_index = NoEnd
  /\ limit = 0
  /\ max_pages = 0
  /\ pc = "page_end"
  /\ page_idx = 1
  /\ i = 1
  /\ global_row = 1
  /\ rows = 1
  /\ row = 1
  /\ all_events \in {<<>>, <<RecordOf(1)>>}
  /\ handles = <<ListCtx(1)>>
  /\ focus = 1
  /\ results = <<>>
  /\ out_json = <<>>
  /\ written = FALSE
  /\ attempted = <<>>
  /\ last = "none"
  /\ nfaults = 0
  /\ nm = <<>>
  /\ lab = <<>>
  /\ att = <<>>
  /\ txt = <<>>
  /\ clk = <<>>
  /\ nxt \in [cands : Candidates, clicks : {{}}, ret : {FALSE}]

\* if not click_next_if_available(driver): break.  Every click shows the next
\* list page.
NextWith(missing) ==
  /\ nxt' = [nxt EXCEPT !.clicks = click_next_if_available(nxt.cands, missing).clicks,
                        !.ret = click_next_if_available(nxt.cands, missing).ret]
  /\ handles' = [handles EXCEPT ![focus] = ListCtx(cur.n + Cardinality(nxt'.clicks))]
  /\ pc' = IF nxt'.ret THEN "page_top" ELSE "ret"
  /\ UNCHANGED <<cfgVars, locVars, focus, mainVars, attempted, last, nm, lab, att, txt, clk>>

NextClick ==
  /\ pc = "page_end"
  /\ NextWith({})
  /\ Quiet

\* after a click the EVENTS heading is not found
NextClickLost ==
  /\ pc = "page_end"
  /\ CanFail /\ Fail
  /\ \E missing \in (SUBSET (1..3)) \ {{}} : NextWith(missing)

\* The click raises something else than ElementNotInteractableException, or
\* the table wait of goto_events_section times out: the function does not
\* return.
NextClickRaises ==
  /\ pc = "page_end"
  /\ click_next_if_available(nxt.cands, {}).clicks /= {}
  /\ CanFail /\ Fail
  /\ nxt' = [nxt EXCEPT !.clicks = click_next_if_available(nxt.cands, {}).clicks]
  /\ pc' = "raised"
  /\ UNCHANGED <<cfgVars, locVars, drvVars, mainVars, attempted, last, nm, lab, att, txt, clk>>

NextPaging == NextClick \/ NextClickLost \/ NextClickRaises \/ PageTop \/ Return

SpecNext == InitNext /\ [][NextPaging]_vars

\* the first not disabled-styled candidate of strategy n is displayed and
\* enabled
UsableStrategy(n) ==
  \E j \in 1..Len(nxt.cands[n]) :
    /\ ~nxt.cands[n][j].styled
    /\ nxt.cands[n][j].displayed /\ nxt.cands[n][j].enabled
    /\ \A e \in 1..(j - 1) : nxt.cands[n][e].styled

\* C21: a control is clicked only if it is the first not disabled-styled
\* candidate of its strategy and is displayed and enabled, the strategies being
\* tried in order (the first usable one is clicked; a later one only when the
\* list section was not found after the earlier click); True is returned only
\* after a click and with the list section found again; with no usable
\* control nothing is clicked, False is returned and process_all returns the
\* records collected; page_idx grows by exactly one per advance.
C21_NextClickedWhenUsable ==
  [][/\ pc = "page_end"
          => /\ \A k \in nxt'.clicks :
                  UsableStrategy(k) /\ \A n \in 1..(k - 1) : UsableStrategy(n) => n \in nxt'.clicks
             /\ (\E n \in 1..3 : UsableStrategy(n)) => nxt'.clicks /= {}
             /\ nfaults' = nfaults => Cardinality(nxt'.clicks) <= 1
             /\ pc' = "page_top" => (nxt'.clicks /= {} /\ OnList(handles'[focus']))
             /\ nxt'.clicks = {} => (pc' = "ret" /\ handles' = handles)
             /\ all_events' = all_events /\ page_idx' = page_idx
     /\ pc = "page_top" => page_idx' = page_idx + 1
     /\ pc = "ret" => results' = all_events]_vars

\* the first strategy finds a hidden control, the second a usable one after a
\* disabled-styled one: the second is clicked and page 2 is counted
C21_Witness ==
  /\ pc = "loop" /\ page_idx = 2 /\ nxt.clicks = {2} /\ nxt.ret
  /\ nxt.cands[1] = <<Control(FALSE, FALSE, TRUE)>>
  /\ Len(nxt.cands[2]) = 2 /\ nxt.cands[2][1].styled
  /\ handles = <<ListCtx(2)>>

\* ------------------------------------------------ termination of process_all
\* A run over a short list with no range, limit or page cap.
InitRetry ==
  /\ pageRows \in {<<2>>, <<1, 1>>}
  /\ start_index = 1
  /\ end_index = NoEnd
  /\ limit = 0
  /\ max_pages = 0
  /\ pc = "main"
  /\ page_idx = 0
  /\ i = 0
  /\ global_row = 0
  /\ rows = 0
  /\ row = 0
  /\ all_events = <<>>
  /\ handles = <<Blank>>
  /\ focus = 1
  /\ results = <<>>
  /\ out_json = <<>>
  /\ written = FALSE
  /\ attempted = <<>>
  /\ last = "none"
  /\ nfaults = 0
  /\ nm = <<>>
  /\ lab = <<>>
  /\ att = <<>>
  /\ txt = <<>>
  /\ clk = <<>>
  /\ nxt = <<>>

\* rows = get_event_rows(driver) raises, as it may at every call of a driver
\* that no longer answers (the browser is gone): the handler is entered with i
\* as it was.
RowQueryDown ==
  /\ pc = "try"
  /\ pc' = "except"
  /\ UNCHANGED <<cfgVars, locVars, drvVars, mainVars, attempted, last, nfaults, nm, auxVars>>

NextRetry == Next \/ RowQueryDown

\* The program runs on for as long as it has a step to take.
SpecRetry == InitRetry /\ [][NextRetry]_vars /\ WF_vars(NextRetry)

\* C22: process_all terminates (the run reaches its end), so that no row
\* index is retried forever.
C22_Terminates == <>(pc = "done")

\* ------------------------------------------------- rows and global indexes
\* C23: the rows are visited in page-major order of the list and no list row
\* has extraction attempted more than once (as follows from the row visited
\* under global index g being the g-th row of the list), also after a row
\* step that re-navigated the list context to START_URL.
C23_RowsVisitedInOrder ==
  \A a, b \in 1..Len(attempted) : a < b => attempted[a] < attempted[b]

\* C24: a record is appended for a row only if the extraction ran on the
\* detail page of that row: every record collected holds what the detail
\* context of its row shows.
C24_RecordsFromDetailPages ==
  \A k \in 1..Len(all_events) : all_events[k].src = Detail(all_events[k].row)

\* C25: the list context, the first entry of window_handles, is never closed:
\* when the success path or the interstitial-skip path closes the current
\* window (more than one context being open), the current window is not the
\* first one.
C25_ListContextNeverClosed ==
  [][(pc \in {"skip", "close"} /\ pc' = "loop" /\ Len(handles) > 1) => focus /= 1]_vars

====
